---- MODULE Spec2Model ----
(***************************************************************************)
(* Download orchestration of the Telegram music bot (src/bot/handlers.py,  *)
(* src/bot/audio_processor.py).  The application is built with the default *)
(* builder (src/main.py:85), so updates are handled one at a time: a       *)
(* handler runs from dispatch to return before the next update is taken.   *)
(* Every await of a handler is one step; the transport, the resolver and   *)
(* the fetch tool are external and each call may succeed or fail.          *)
(***************************************************************************)
EXTENDS Naturals, Integers, Sequences, FiniteSets, TLC

\* ---------------------------------------------------------------- bounds
\* number of updates (messages and button callbacks) taken from the transport
MaxUpdates == 3

\* number of items of a collection whose progress line is rendered
MaxTracks == 100

\* number of cleanup calls made on the scratch directory
MaxCleanups == 2

\* ---------------------------------------------------------------- inputs
Sessions == {"u1", "u2"}
Kinds == {"track", "playlist", "album"}
Ids == {"x", "y"}
Qualities == {"128", "320"}

\* what the resolver knows: the ordered items of each reference, an item
\* being the query "name artist" that download_track searches for
Catalog(kind, id) ==
    CASE kind = "track"    /\ id = "x" -> <<"a">>
      [] kind = "track"    /\ id = "y" -> <<"b">>
      [] kind = "playlist" /\ id = "x" -> <<"a", "b", "c">>
      [] kind = "playlist" /\ id = "y" -> <<"b", "b">>
      [] kind = "album"    /\ id = "x" -> <<"c">>
      [] OTHER                         -> << >>

Queries == {"a", "b", "c"}

\* Python's None for a metadata dictionary
None == [kind |-> "None", id |-> "", tracks |-> << >>]

Metadata(kind, id) == [kind |-> kind, id |-> id, tracks |-> Catalog(kind, id)]

\* message texts: without the domain marker, with the marker but no
\* extractable kind/id, and the recognizable references
NoMarker == [marker |-> FALSE, kind |-> "", id |-> ""]
BadLink == [marker |-> TRUE, kind |-> "", id |-> ""]
UnknownKind == [marker |-> TRUE, kind |-> "artist", id |-> "x"]
Texts == {NoMarker, BadLink, UnknownKind} \cup {[marker |-> TRUE, kind |-> k, id |-> d] : k \in Kinds, d \in Ids}

\* ----------------------------------------------------------------- state
VARIABLES
    user_data,     \* context.user_data of every session
    issued,        \* quality prompts whose buttons reached a requester
    download_dir,  \* AudioProcessor.download_dir: path -> quality of the file, or absent
    pc,            \* position of the handler being run ("idle" between updates)
    run,           \* locals of the handler being run
    log,           \* external calls the handler being run has made, in order
    updates,       \* updates dispatched so far
    chats,         \* the requesters that talk to the bot
    pending        \* updates received while a handler runs, waiting their turn

vars == <<user_data, issued, download_dir, pc, run, log, updates, chats, pending>>

SlotKeys == {"current_track", "current_playlist", "current_album"}

SlotKey(kind) ==
    CASE kind = "track" -> "current_track"
      [] kind = "playlist" -> "current_playlist"
      [] OTHER -> "current_album"

Absent == "absent"

\* the scratch path of a query: download_dir/<sanitized query>-<hash>.mp3
\* (audio_processor.py:73-76, 107); it depends on the query alone
ScratchPath(query) == [name |-> query, ext |-> "mp3"]

NoPath == [name |-> "", ext |-> ""]

Paths == {ScratchPath(q) : q \in Queries}

NoRun == [sess |-> "", kind |-> "", id |-> "", data |-> << >>, info |-> None,
          quality |-> "", i |-> 0, success_count |-> 0, file_path |-> NoPath,
          inflight |-> {}]

\* one external call: what was called, with what, for which item (i of n),
\* and whether it completed (ok) or raised
Call(call, msg, i, n, ok) == [call |-> call, msg |-> msg, i |-> i, n |-> n, ok |-> ok]

Init ==
    /\ user_data = [s \in Sessions |-> [k \in SlotKeys |-> None]]
    /\ issued = {}
    /\ download_dir = [p \in Paths |-> Absent]
    /\ pc = "idle"
    /\ run = NoRun
    /\ log = << >>
    /\ updates = 0
    /\ chats = {"u1"}
    /\ pending = << >>

\* a transport call (send, edit, reply, answer) completes or raises
Transport(call, msg, i, n, ok) == log' = Append(log, Call(call, msg, i, n, ok))

\* ------------------------------------------------- message: handle_message
\* extract_spotify_id(url): the (id, kind) of the path segment, as section
\* 4.1 of the specification describes it
extract_spotify_id(text) == <<text.id, text.kind>>

handle_message(s, text) ==
    /\ pc = "idle"
    /\ pending = << >>
    /\ s \in chats
    /\ updates < MaxUpdates
    /\ updates' = updates + 1
    /\ run' = [NoRun EXCEPT !.sess = s, !.kind = extract_spotify_id(text)[2],
                            !.id = extract_spotify_id(text)[1]]
    /\ log' = << >>
    /\ pc' = IF text.marker THEN "analyzing_reply" ELSE "demo_reply"
    /\ UNCHANGED <<user_data, issued, download_dir, chats, pending>>

\* handlers.py:60 the retry/demo prompt
handle_message_demo_reply ==
    /\ pc = "demo_reply"
    /\ \E ok \in BOOLEAN : Transport("reply", "not_a_link", 0, 0, ok)
    /\ pc' = "done"
    /\ UNCHANGED <<user_data, issued, download_dir, run, updates, chats, pending>>

\* variant: the extracted id and kind are not tested
Recognized_any(id, kind) == TRUE

\* handlers.py:83-88: an id was extracted and the kind is one of the three
Recognized(id, kind) == id /= "" /\ kind \in Kinds

\* handlers.py:73 the processing message, sent outside the try
handle_spotify_url_reply ==
    /\ pc = "analyzing_reply"
    /\ \E ok \in BOOLEAN :
        /\ Transport("reply", "analyzing", 0, 0, ok)
        /\ pc' = IF ~ok THEN "done"
                 ELSE IF Recognized(run.id, run.kind) THEN "resolve"
                 ELSE "unsupported_edit"
    /\ UNCHANGED <<user_data, issued, download_dir, run, updates, chats, pending>>

\* handlers.py:90
handle_spotify_url_unsupported ==
    /\ pc = "unsupported_edit"
    /\ \E ok \in BOOLEAN :
        /\ Transport("edit", "unsupported", 0, 0, ok)
        /\ pc' = IF ok THEN "done" ELSE "url_error_edit"
    /\ UNCHANGED <<user_data, issued, download_dir, run, updates, chats, pending>>

\* handlers.py:96 the except of handle_spotify_url
handle_spotify_url_except ==
    /\ pc = "url_error_edit"
    /\ \E ok \in BOOLEAN : Transport("edit", "something_went_wrong", 0, 0, ok)
    /\ pc' = "done"
    /\ UNCHANGED <<user_data, issued, download_dir, run, updates, chats, pending>>

\* ------------------------------------------- resolution: handle_single_track,
\* ------------------------------------------- handle_playlist, handle_album
\* the metadata provider answers with the metadata, with None, or raises
ResolverAnswers == {"found", "none", "raise"}

\* variant: a slot that is already populated is kept (setdefault)
StoreSlot_keep(ud, s, kind, info) ==
    IF ud[s][SlotKey(kind)] = None THEN [ud EXCEPT ![s][SlotKey(kind)] = info] ELSE ud

\* context.user_data['current_<kind>'] = info; every session is a user, so
\* its user_data is a dictionary (the guard of handlers.py:119 holds)
StoreSlot(ud, s, kind, info) == [ud EXCEPT ![s][SlotKey(kind)] = info]

\* the quality keyboard shown for a resolved reference
Prompt(s, kind, id) == [sess |-> s, kind |-> kind, id |-> id]

\* handlers.py:108-121, 148-156, 210-218: the resolver call and what follows it
\* up to the next await; only the track handler stores before it prompts
resolve ==
    /\ pc = "resolve"
    /\ \E r \in ResolverAnswers :
        /\ log' = Append(log, Call("resolve", r, 0, 0, r /= "raise"))
        /\ IF r = "found"
           THEN /\ run' = [run EXCEPT !.info = Metadata(run.kind, run.id)]
                /\ user_data' = IF run.kind = "track"
                                THEN StoreSlot(user_data, run.sess, run.kind, Metadata(run.kind, run.id))
                                ELSE user_data
                /\ pc' = "prompt_edit"
           ELSE /\ pc' = IF r = "none" THEN "notfound_edit" ELSE "kind_error_edit"
                /\ UNCHANGED <<run, user_data>>
    /\ UNCHANGED <<issued, download_dir, updates, chats, pending>>

\* handlers.py:111, 151, 213: "not found", then return
notfound_edit ==
    /\ pc = "notfound_edit"
    /\ \E ok \in BOOLEAN :
        /\ Transport("edit", "not_found", 0, 0, ok)
        /\ pc' = IF ok THEN "done" ELSE "kind_error_edit"
    /\ UNCHANGED <<user_data, issued, download_dir, run, updates, chats, pending>>

\* where a handler goes when editing the prompt into the processing message
\* raises: handle_playlist alone has an inner try with a fallback reply
AfterPromptEditFails(kind) == IF kind = "playlist" THEN "prompt_reply" ELSE "kind_error_edit"

\* where a handler goes once the prompt is out: the track handler has stored
\* already, the collection handlers store next
AfterPrompt(kind) == IF kind = "track" THEN "done" ELSE "store"

\* handlers.py:126, 171, 232: the quality prompt replaces the processing message
prompt_edit ==
    /\ pc = "prompt_edit"
    /\ \E ok \in BOOLEAN :
        /\ Transport("edit", "quality_prompt", 0, 0, ok)
        /\ issued' = IF ok THEN issued \cup {Prompt(run.sess, run.kind, run.id)} ELSE issued
        /\ pc' = IF ok THEN AfterPrompt(run.kind) ELSE AfterPromptEditFails(run.kind)
    /\ UNCHANGED <<user_data, download_dir, run, updates, chats, pending>>

\* handlers.py:183: handle_playlist sends the prompt as a new message
handle_playlist_prompt_reply ==
    /\ pc = "prompt_reply"
    /\ \E ok \in BOOLEAN :
        /\ Transport("reply", "quality_prompt", 0, 0, ok)
        /\ issued' = IF ok THEN issued \cup {Prompt(run.sess, run.kind, run.id)} ELSE issued
        /\ pc' = IF ok THEN AfterPrompt(run.kind) ELSE "kind_error_edit"
    /\ UNCHANGED <<user_data, download_dir, run, updates, chats, pending>>

\* variant: one dictionary shared by all sessions (bot_data in place of
\* user_data)
store_shared ==
    /\ pc = "store"
    /\ user_data' = [t \in Sessions |->
                        [user_data[t] EXCEPT ![SlotKey(run.kind)] = run.info]]
    /\ pc' = "done"
    /\ UNCHANGED <<issued, download_dir, run, log, updates, chats, pending>>

\* handlers.py:194-196, 243-245: the collection handlers store after the prompt
store ==
    /\ pc = "store"
    /\ user_data' = StoreSlot(user_data, run.sess, run.kind, run.info)
    /\ pc' = "done"
    /\ UNCHANGED <<issued, download_dir, run, log, updates, chats, pending>>

\* handlers.py:136, 198, 247: the except of the three handlers; a failure of
\* this edit propagates to the except of handle_spotify_url
kind_error_edit ==
    /\ pc = "kind_error_edit"
    /\ \E ok \in BOOLEAN :
        /\ Transport("edit", "error_retrieving", 0, 0, ok)
        /\ pc' = IF ok THEN "done" ELSE "url_error_edit"
    /\ UNCHANGED <<user_data, issued, download_dir, run, updates, chats, pending>>

\* ----------------------------------------- callbacks: handle_button_callback
\* callback data, as the list of its parts between underscores
QualityData(q) == <<"quality", q>>
DownloadData(kind, id, q) == <<"download", kind, id, q>>
CancelData == <<"cancel", "download">>

\* the buttons under the quality prompt of a reference: create_quality_keyboard
\* for a track, handlers.py:161-168 and 223-230 for a collection
Buttons(kind, id) ==
    IF kind = "track"
    THEN {QualityData(q) : q \in Qualities}
    ELSE {DownloadData(kind, id, q) : q \in Qualities} \cup {CancelData}

\* handlers.py:255-266: a button of a prompt issued to s is pressed
handle_button_callback(s, kind, id, data) ==
    /\ pc = "idle"
    /\ pending = << >>
    /\ s \in chats
    /\ updates < MaxUpdates
    /\ Prompt(s, kind, id) \in issued
    /\ data \in Buttons(kind, id)
    /\ updates' = updates + 1
    /\ run' = [NoRun EXCEPT !.sess = s, !.kind = kind, !.id = id, !.data = data]
    /\ log' = << >>
    /\ pc' = "answer"
    /\ UNCHANGED <<user_data, issued, download_dir, chats, pending>>

\* the data of the navigation buttons (handlers.py:39, 59, 336-337, 434, 529,
\* 594 and create_main_keyboard), of a button this version does not know, and
\* of a callback without data: "".split("_") is [""]
DownloadAnother == <<"download", "another">>
NoData == <<"">>
NavigationData ==
    {<<"main", "menu">>, <<"help">>, <<"try", "demo">>, <<"get", "demo", "url">>,
     <<"share", "bot">>, <<"guide", "spotify">>, DownloadAnother, <<"noop">>, NoData}

\* the screens that are edited into the message of the pressed button
Screens == {"show_main_menu", "show_help_info", "show_demo_options",
            "provide_demo_url", "show_share_info", "show_spotify_guide"}

\* variant: the prefixes are tested before the exact match of download_another
Route_prefix_first(data) ==
    IF Len(data) >= 2 /\ data[1] = "quality" THEN "handle_quality_selection"
    ELSE IF Len(data) >= 2 /\ data[1] = "download" THEN "handle_download_request"
    ELSE IF data = DownloadAnother THEN "download_another"
    ELSE IF data = <<"main", "menu">> THEN "show_main_menu"
    ELSE IF data = <<"help">> THEN "show_help_info"
    ELSE IF data = <<"try", "demo">> THEN "show_demo_options"
    ELSE IF data = <<"get", "demo", "url">> THEN "provide_demo_url"
    ELSE IF data = <<"share", "bot">> THEN "show_share_info"
    ELSE IF data = CancelData THEN "cancel_download"
    ELSE IF data = <<"guide", "spotify">> THEN "show_spotify_guide"
    ELSE "unknown"

\* handlers.py:269-311: the handler a callback is routed to; download_another
\* is matched first, the others in the order of the elif chain
Route(data) ==
    IF data = DownloadAnother THEN "download_another"
    ELSE IF data = <<"main", "menu">> THEN "show_main_menu"
    ELSE IF data = <<"help">> THEN "show_help_info"
    ELSE IF data = <<"try", "demo">> THEN "show_demo_options"
    ELSE IF data = <<"get", "demo", "url">> THEN "provide_demo_url"
    ELSE IF data = <<"share", "bot">> THEN "show_share_info"
    ELSE IF Len(data) >= 2 /\ data[1] = "quality" THEN "handle_quality_selection"
    ELSE IF Len(data) >= 2 /\ data[1] = "download" THEN "handle_download_request"
    ELSE IF data = CancelData THEN "cancel_download"
    ELSE IF data = <<"guide", "spotify">> THEN "show_spotify_guide"
    ELSE "unknown"

\* variant: the slot value is not tested
Truthy_any(info) == TRUE

\* Python truthiness of a slot value (if not track_info / if playlist_info)
Truthy(info) == info /= None

\* handlers.py:461-474: the slot a collection callback reads, "" when the
\* data matches neither prefix or has fewer than four parts
DownloadSlot(data) ==
    IF Len(data) >= 4 /\ data[2] = "playlist" THEN "current_playlist"
    ELSE IF Len(data) >= 4 /\ data[2] = "album" THEN "current_album"
    ELSE ""

\* handlers.py:262 then the routing and the called handler up to its first await
answer ==
    /\ pc = "answer"
    /\ \E ok \in BOOLEAN :
        /\ Transport("answer", "", 0, 0, ok)
        /\ IF ~ok THEN pc' = "done" /\ run' = run
           ELSE CASE Route(run.data) = "handle_quality_selection" ->
                       LET track_info == user_data[run.sess]["current_track"] IN
                       /\ run' = [run EXCEPT !.quality = run.data[2],
                                             !.info = track_info]
                       /\ pc' = IF Truthy(track_info) THEN "downloading_edit" ELSE "expired_edit"
                  [] Route(run.data) = "handle_download_request" ->
                       LET key == DownloadSlot(run.data)
                           info == IF key = "" THEN None ELSE user_data[run.sess][key] IN
                       /\ run' = [run EXCEPT !.quality = run.data[Len(run.data)],
                                             !.info = info]
                       /\ pc' = IF Truthy(info) THEN "starting_edit" ELSE "done"
                  [] Route(run.data) = "cancel_download" ->
                       pc' = "cancel_edit" /\ run' = run
                  [] Route(run.data) = "download_another" ->
                       pc' = "another_reply" /\ run' = run
                  [] Route(run.data) \in Screens ->
                       pc' = "screen_edit" /\ run' = run
                  [] OTHER -> pc' = "unknown_reply" /\ run' = run
    /\ UNCHANGED <<user_data, issued, download_dir, updates, chats, pending>>

\* handlers.py:391
handle_quality_selection_expired ==
    /\ pc = "expired_edit"
    /\ \E ok \in BOOLEAN : Transport("edit", "session_expired", 0, 0, ok)
    /\ pc' = "done"
    /\ UNCHANGED <<user_data, issued, download_dir, run, updates, chats, pending>>

\* handlers.py:606-612
cancel_download ==
    /\ pc = "cancel_edit"
    /\ \E ok \in BOOLEAN : Transport("edit", "cancelled", 0, 0, ok)
    /\ pc' = "done"
    /\ UNCHANGED <<user_data, issued, download_dir, run, updates, chats, pending>>

\* ------------------------------------------- navigation callbacks
\* handlers.py:255-260: a navigation button is pressed; the buttons stay in
\* the chat under the messages of /start, /help and of finished downloads,
\* so any of them can be pressed at any time.  A callback without data
\* returns before it is answered
handle_navigation_callback(s, data) ==
    /\ pc = "idle"
    /\ pending = << >>
    /\ s \in chats
    /\ updates < MaxUpdates
    /\ data \in NavigationData
    /\ updates' = updates + 1
    /\ run' = [NoRun EXCEPT !.sess = s, !.data = data]
    /\ log' = << >>
    /\ pc' = IF data = NoData THEN "done" ELSE "answer"
    /\ UNCHANGED <<user_data, issued, download_dir, chats, pending>>

\* handlers.py:272: the first reply of download_another, inside its try
download_another_reply ==
    /\ pc = "another_reply"
    /\ \E ok \in BOOLEAN :
        /\ Transport("reply", "ready_for_more", 0, 0, ok)
        /\ pc' = IF ok THEN "another_menu_edit" ELSE "another_fallback_reply"
    /\ UNCHANGED <<user_data, issued, download_dir, run, updates, chats, pending>>

\* handlers.py:282: show_main_menu called by download_another
download_another_menu ==
    /\ pc = "another_menu_edit"
    /\ \E ok \in BOOLEAN :
        /\ Transport("edit", "show_main_menu", 0, 0, ok)
        /\ pc' = IF ok THEN "done" ELSE "another_fallback_reply"
    /\ UNCHANGED <<user_data, issued, download_dir, run, updates, chats, pending>>

\* handlers.py:285-288: the except of download_another
download_another_except ==
    /\ pc = "another_fallback_reply"
    /\ \E ok \in BOOLEAN : Transport("reply", "ready_fallback", 0, 0, ok)
    /\ pc' = "done"
    /\ UNCHANGED <<user_data, issued, download_dir, run, updates, chats, pending>>

\* handlers.py:313-383, 655-680: show_main_menu, show_help_info,
\* show_demo_options, provide_demo_url, show_share_info, show_spotify_guide:
\* one edit of the message
show_screen ==
    /\ pc = "screen_edit"
    /\ \E ok \in BOOLEAN : Transport("edit", Route(run.data), 0, 0, ok)
    /\ pc' = "done"
    /\ UNCHANGED <<user_data, issued, download_dir, run, updates, chats, pending>>

\* handlers.py:309-311: the reply to an unknown action
unknown_action_reply ==
    /\ pc = "unknown_reply"
    /\ \E ok \in BOOLEAN : Transport("reply", "unknown_action", 0, 0, ok)
    /\ pc' = "done"
    /\ UNCHANGED <<user_data, issued, download_dir, run, updates, chats, pending>>

\* ------------------------------------------- quality strings
\* the quality part a callback can carry: the three of the map, one that is
\* not in it, and the empty one of "quality_" or "download_playlist_x_"
QualityInputs == {"128", "192", "320", "64", ""}

\* handlers.py:255-266: a quality callback for a prompt issued to s arrives
\* with any quality part; the handlers take the part as it is
\* (handlers.py:387, 464, 470)
handle_quality_callback(s, kind, id, q) ==
    /\ pc = "idle"
    /\ pending = << >>
    /\ s \in chats
    /\ updates < MaxUpdates
    /\ Prompt(s, kind, id) \in issued
    /\ q \in QualityInputs
    /\ updates' = updates + 1
    /\ run' = [NoRun EXCEPT !.sess = s, !.kind = kind, !.id = id,
                            !.data = IF kind = "track" THEN QualityData(q)
                                     ELSE DownloadData(kind, id, q)]
    /\ log' = << >>
    /\ pc' = "answer"
    /\ UNCHANGED <<user_data, issued, download_dir, chats, pending>>

\* ------------------------------------------------ fetch: AudioProcessor
\* variant: a quality outside the map is passed on as no quality at all
_map_quality_to_ytdlp_strict(quality) ==
    CASE quality = "128" -> "128K"
      [] quality = "192" -> "192K"
      [] quality = "320" -> "320K"
      [] OTHER -> "0"

\* audio_processor.py:129-144
_map_quality_to_ytdlp(quality) ==
    CASE quality = "128" -> "128K"
      [] quality = "192" -> "192K"
      [] quality = "320" -> "320K"
      [] OTHER -> "192K"

\* how a run of the fetch tool can end: exit 0 with the file written, exit 0
\* with nothing written, a non-zero exit, or an exception around the run
FetchOutcomes == {"written", "nothing_written", "nonzero_exit", "raised"}

\* audio_processor.py:96-103: the directory after the fetch tool has run
DirAfterFetch(dir, query, quality, outcome) ==
    IF outcome = "written"
    THEN [dir EXCEPT ![ScratchPath(query)] = _map_quality_to_ytdlp(quality)]
    ELSE dir

\* variant: the exit status of the tool is not looked at
download_track_any_exit(dir, query, outcome) ==
    IF dir[ScratchPath(query)] /= Absent THEN ScratchPath(query) ELSE NoPath

\* audio_processor.py:45-57, 105-125: the path download_track returns, NoPath
\* for None; dir is the directory after the tool has run
download_track(dir, query, outcome) ==
    IF outcome \in {"written", "nothing_written"} /\ dir[ScratchPath(query)] /= Absent
    THEN ScratchPath(query)
    ELSE NoPath

\* ------------------------------------- downloads: start_track_download,
\* ------------------------------------- start_playlist_download, start_album_download
total_tracks == Len(run.info.tracks)

\* variant: the loop stops one item short (enumerate(tracks[:-1], 1))
AfterItem_early(i, total) ==
    IF i + 1 < total THEN [pc |-> "progress_edit", i |-> i + 1]
    ELSE [pc |-> "summary_edit", i |-> i]

\* the loop header for i, track in enumerate(tracks, 1): the next item, or
\* the final summary after the last one
AfterItem(i, total) ==
    IF i < total THEN [pc |-> "progress_edit", i |-> i + 1]
    ELSE [pc |-> "summary_edit", i |-> i]

\* handlers.py:400: start_track_download's first edit, outside its try
start_track_download ==
    /\ pc = "downloading_edit"
    /\ \E ok \in BOOLEAN :
        /\ Transport("edit", "downloading", 0, 0, ok)
        /\ pc' = IF ok THEN "fetch" ELSE "done"
        /\ run' = [run EXCEPT !.i = 1]
    /\ UNCHANGED <<user_data, issued, download_dir, updates, chats, pending>>

\* handlers.py:481, 546: the first edit of a collection download, outside the
\* loop's try, then the loop header
start_collection_download ==
    /\ pc = "starting_edit"
    /\ \E ok \in BOOLEAN :
        /\ Transport("edit", "starting", 0, total_tracks, ok)
        /\ IF ok
           THEN /\ pc' = AfterItem(0, total_tracks).pc
                /\ run' = [run EXCEPT !.i = AfterItem(0, total_tracks).i]
           ELSE pc' = "done" /\ run' = run
    /\ UNCHANGED <<user_data, issued, download_dir, updates, chats, pending>>

\* handlers.py:494, 559: the progress update of item i; when it raises the
\* except of the loop body continues with the next item
progress_edit ==
    /\ pc = "progress_edit"
    /\ \E ok \in BOOLEAN :
        /\ Transport("edit", "progress", run.i, total_tracks, ok)
        /\ IF ok
           THEN pc' = "fetch" /\ run' = run
           ELSE /\ pc' = AfterItem(run.i, total_tracks).pc
                /\ run' = [run EXCEPT !.i = AfterItem(run.i, total_tracks).i]
    /\ UNCHANGED <<user_data, issued, download_dir, updates, chats, pending>>

\* handlers.py:411, 504, 569: download_track is called and awaited
fetch ==
    /\ pc = "fetch"
    /\ log' = Append(log, Call("fetch", run.quality, run.i, total_tracks, TRUE))
    /\ run' = [run EXCEPT !.inflight = run.inflight \cup {run.i}]
    /\ pc' = "fetch_wait"
    /\ UNCHANGED <<user_data, issued, download_dir, updates, chats, pending>>

\* variant: a collection run goes on to the next item without sending the file
AfterFetchPath_defer(mode, i, total) ==
    IF mode = "track" THEN [pc |-> "send_audio", i |-> i] ELSE AfterItem(i, total)

\* where the run goes when download_track returned a path
AfterFetchPath(mode, i, total) == [pc |-> "send_audio", i |-> i]

\* variant: a failed fetch ends the loop of a collection run (break)
AfterFetchNone_break(mode, i, total) ==
    IF mode = "track" THEN [pc |-> "failed_edit", i |-> i] ELSE [pc |-> "summary_edit", i |-> i]

\* variant: a failed fetch is tried again
AfterFetchNone_retry(mode, i, total) == [pc |-> "fetch", i |-> i]

\* where the run goes when download_track returned None: the single-track
\* run raises into its except (handlers.py:447), a collection run goes on
\* with the next item (handlers.py:506)
AfterFetchNone(mode, i, total) ==
    IF mode = "track" THEN [pc |-> "failed_edit", i |-> i] ELSE AfterItem(i, total)

\* download_track returns
fetch_return ==
    /\ pc = "fetch_wait"
    /\ \E outcome \in FetchOutcomes :
        LET query == run.info.tracks[run.i]
            dir == DirAfterFetch(download_dir, query, run.quality, outcome)
            file_path == download_track(dir, query, outcome)
            next == IF file_path /= NoPath
                    THEN AfterFetchPath(run.info.kind, run.i, total_tracks)
                    ELSE AfterFetchNone(run.info.kind, run.i, total_tracks) IN
        /\ download_dir' = dir
        /\ log' = Append(log, Call("fetch_return", outcome, run.i, total_tracks, file_path /= NoPath))
        /\ run' = [run EXCEPT !.file_path = file_path, !.inflight = run.inflight \ {run.i},
                              !.i = next.i]
        /\ pc' = next.pc
    /\ UNCHANGED <<user_data, issued, updates, chats, pending>>

\* variant: a delivery is counted twice
CountDelivered_twice(success_count) == success_count + 2

\* variant: the delivery is not counted
CountDelivered_none(success_count) == success_count

\* success_count += 1 (handlers.py:522, 587)
CountDelivered(success_count) == success_count + 1

\* handlers.py:415-431, 508-522, 573-587: the file is sent; a collection run
\* counts it and goes on, and when the send raises goes on without counting
send_audio ==
    /\ pc = "send_audio"
    /\ \E ok \in BOOLEAN :
        /\ Transport("send_audio", run.file_path.name, run.i, total_tracks, ok)
        /\ IF run.info.kind = "track"
           THEN /\ pc' = IF ok THEN "complete_edit" ELSE "failed_edit"
                /\ run' = run
           ELSE /\ pc' = AfterItem(run.i, total_tracks).pc
                /\ run' = [run EXCEPT !.i = AfterItem(run.i, total_tracks).i,
                                      !.success_count = IF ok THEN CountDelivered(run.success_count)
                                                        ELSE run.success_count]
    /\ UNCHANGED <<user_data, issued, download_dir, updates, chats, pending>>

\* handlers.py:437: the completion message of a single track, inside the try
start_track_download_complete ==
    /\ pc = "complete_edit"
    /\ \E ok \in BOOLEAN :
        /\ Transport("edit", "download_complete", 0, 0, ok)
        /\ pc' = IF ok THEN "done" ELSE "failed_edit"
    /\ UNCHANGED <<user_data, issued, download_dir, run, updates, chats, pending>>

\* handlers.py:449-457: the except of start_track_download
start_track_download_except ==
    /\ pc = "failed_edit"
    /\ \E ok \in BOOLEAN : Transport("edit", "download_failed", 0, 0, ok)
    /\ pc' = "done"
    /\ UNCHANGED <<user_data, issued, download_dir, run, updates, chats, pending>>

\* handlers.py:532, 597: the final summary succeeded/total
summary_edit ==
    /\ pc = "summary_edit"
    /\ \E ok \in BOOLEAN : Transport("edit", "summary", run.success_count, total_tracks, ok)
    /\ pc' = "done"
    /\ UNCHANGED <<user_data, issued, download_dir, run, updates, chats, pending>>

\* app.py:84-127: when the polling loop ends with an error the bot is built
\* again: the new Application starts with empty user_data, while the module's
\* AudioProcessor and its directory stay, and so do the buttons in the chats
run_telegram_bot ==
    /\ pc = "idle"
    /\ user_data /= [s \in Sessions |-> [k \in SlotKeys |-> None]]
    /\ user_data' = [s \in Sessions |-> [k \in SlotKeys |-> None]]
    /\ UNCHANGED <<issued, download_dir, pc, run, log, updates, chats, pending>>

\* ------------------------------------------- updates that arrive mid-run
\* main.py:85, 101: the polling loop keeps receiving while a handler runs,
\* and the application takes the next update only when the handler has
\* returned.  A handler cannot see the waiting updates, so for everything but
\* the moment of arrival it is the same to let an update arrive when it is
\* taken; the cancel button pressed during a collection download is the
\* arrival that is followed here.
receive_cancel(s, kind, id) ==
    /\ pc \notin {"idle", "done"}
    /\ Route(run.data) = "handle_download_request"
    /\ \E k \in 1..Len(log) : log[k].msg = "starting" /\ log[k].ok
    /\ s = run.sess
    /\ updates < MaxUpdates
    /\ pending = << >>
    /\ Prompt(s, kind, id) \in issued
    /\ CancelData \in Buttons(kind, id)
    /\ updates' = updates + 1
    /\ pending' = <<[sess |-> s, kind |-> kind, id |-> id, data |-> CancelData,
                     marker |-> FALSE, at |-> Len(log), item |-> run.i]>>
    /\ UNCHANGED <<user_data, issued, download_dir, pc, run, log, chats>>

\* a message of another requester arrives while a handler is suspended at an
\* await (the resolver, the fetch or a transport call)
receive_message(s, text) ==
    /\ pc \notin {"idle", "done"}
    /\ s \in chats
    /\ s /= run.sess
    /\ updates < MaxUpdates
    /\ pending = << >>
    /\ updates' = updates + 1
    /\ pending' = <<[sess |-> s, kind |-> extract_spotify_id(text)[2],
                     id |-> extract_spotify_id(text)[1], data |-> << >>,
                     marker |-> text.marker, at |-> 0, item |-> 0]>>
    /\ UNCHANGED <<user_data, issued, download_dir, pc, run, log, chats>>

\* ------------------------------------------- the progress line of a batch
\* Python's ch * k: k copies of ch, none when k is not positive
RECURSIVE Repeat(_, _)
Repeat(ch, k) == IF k <= 0 THEN << >> ELSE <<ch>> \o Repeat(ch, k - 1)

\* variant: the share of the items already finished
Percent_finished(i, total) == ((i - 1) * 100) \div total

\* handlers.py:500, 565: {i * 100 // total_tracks}
Percent(i, total) == (i * 100) \div total

\* handlers.py:500, 565: {'█' * (i * 10 // total_tracks)}{'░' * (10 - i * 10 // total_tracks)}
Bar(i, total) ==
    Repeat("filled", (i * 10) \div total) \o Repeat("empty", 10 - (i * 10) \div total)

\* handlers.py:494-501, 559-566: the text of the progress update of item i
ProgressText(i, total) ==
    [call |-> "edit", msg |-> "progress", i |-> i, n |-> total,
     bar |-> Bar(i, total), percent |-> Percent(i, total)]

\* the text is rendered for the next item of the loop
render_progress ==
    /\ pc = "progress_text"
    /\ run.i < total_tracks
    /\ run' = [run EXCEPT !.i = run.i + 1]
    /\ log' = <<ProgressText(run.i + 1, total_tracks)>>
    /\ UNCHANGED <<user_data, issued, download_dir, pc, updates, chats, pending>>

\* ------------------------------------------- cleanup: AudioProcessor
\* the scratch directory after os.rmdir: nothing can be looked up in it
NoDirectory == << >>

\* os.path.exists(file_path)
exists(dir, path) == dir /= NoDirectory /\ dir[path] /= Absent

\* os.listdir(self.download_dir), as the set of the files present
listdir(dir) == {p \in Paths : exists(dir, p)}

\* the orders in which os.listdir can return the files
Listings(dir) ==
    {order \in [1..Cardinality(listdir(dir)) -> listdir(dir)] :
        \A p \in listdir(dir) : \E k \in DOMAIN order : order[k] = p}

\* os.remove(file_path): raises when there is no such file and when the file
\* cannot be deleted (fails: the files the system refuses to delete)
os_remove(dir, path, fails) ==
    IF exists(dir, path) /\ path \notin fails
    THEN [dir |-> [dir EXCEPT ![path] = Absent], raised |-> FALSE]
    ELSE [dir |-> dir, raised |-> TRUE]

\* variant: neither the test nor the try (a bare os.remove)
cleanup_file_bare(dir, path, fails) == os_remove(dir, path, fails)

\* variant: the except logs and raises again
cleanup_file_reraise(dir, path, fails) ==
    IF exists(dir, path) THEN os_remove(dir, path, fails)
    ELSE [dir |-> dir, raised |-> FALSE]

\* audio_processor.py:148-160: the file is removed when it exists, and what
\* os.remove raises is logged
cleanup_file(dir, path, fails) ==
    IF exists(dir, path)
    THEN [dir |-> os_remove(dir, path, fails).dir, raised |-> FALSE]
    ELSE [dir |-> dir, raised |-> FALSE]

\* audio_processor.py:165-167: the loop over the listing from position k on;
\* an exception out of cleanup_file would end it
RECURSIVE CleanupLoop(_, _, _, _, _)
CleanupLoop(dir, order, k, fails, attempted) ==
    IF k > Len(order)
    THEN [dir |-> dir, attempted |-> attempted, raised |-> FALSE]
    ELSE LET r == cleanup_file(dir, order[k], fails) IN
         IF r.raised
         THEN [dir |-> r.dir, attempted |-> attempted \cup {order[k]}, raised |-> TRUE]
         ELSE CleanupLoop(r.dir, order, k + 1, fails, attempted \cup {order[k]})

\* audio_processor.py:162-171: every listed file is cleaned up, then the
\* directory is removed, which raises while a file is left in it; whatever
\* is raised inside is logged
cleanup_all(dir, order, fails) ==
    IF dir = NoDirectory
    THEN [dir |-> dir, attempted |-> {}, raised |-> FALSE]
    ELSE LET r == CleanupLoop(dir, order, 1, fails, {}) IN
         [dir |-> IF ~r.raised /\ listdir(r.dir) = {} THEN NoDirectory ELSE r.dir,
          attempted |-> r.attempted,
          raised |-> FALSE]

\* one call of cleanup_file on a scratch path
cleanup_file_call(path, fails) ==
    /\ pc = "idle"
    /\ Len(log) < MaxCleanups
    /\ LET r == cleanup_file(download_dir, path, fails) IN
        /\ download_dir' = r.dir
        /\ log' = Append(log, [call |-> "cleanup_file", path |-> path,
                               listed |-> {path}, attempted |-> {path},
                               ok |-> ~r.raised])
    /\ UNCHANGED <<user_data, issued, pc, run, updates, chats, pending>>

\* one call of cleanup_all
cleanup_all_call(fails) ==
    /\ pc = "idle"
    /\ Len(log) < MaxCleanups
    /\ \E order \in Listings(download_dir) :
        LET r == cleanup_all(download_dir, order, fails) IN
        /\ download_dir' = r.dir
        /\ log' = Append(log, [call |-> "cleanup_all", path |-> NoPath,
                               listed |-> listdir(download_dir),
                               attempted |-> r.attempted,
                               ok |-> ~r.raised])
    /\ UNCHANGED <<user_data, issued, pc, run, updates, chats, pending>>

\* control returns to the dispatcher
Return ==
    /\ pc = "done"
    /\ IF pending = << >>
       THEN /\ pc' = "idle"
            /\ run' = NoRun
            /\ pending' = pending
       ELSE \* the update that waited is taken next: a button callback goes to
            \* handle_button_callback, a text to handle_message
            /\ pc' = IF Head(pending).data /= << >> THEN "answer"
                     ELSE IF Head(pending).marker THEN "analyzing_reply"
                     ELSE "demo_reply"
            /\ run' = [NoRun EXCEPT !.sess = Head(pending).sess,
                                    !.kind = Head(pending).kind,
                                    !.id = Head(pending).id,
                                    !.data = Head(pending).data]
            /\ pending' = Tail(pending)
    /\ log' = << >>
    /\ UNCHANGED <<user_data, issued, download_dir, updates, chats>>

\* ------------------------------------------------------------ properties
Collections == {"playlist", "album"}

\* the run in progress is a collection download (start_playlist_download or
\* start_album_download has been entered)
InBatch ==
    /\ Route(run.data) = "handle_download_request"
    /\ run.info.kind \in Collections
    /\ \E k \in 1..Len(log) : log[k].msg = "starting"

IsProgress(c, i) == c.call = "edit" /\ c.msg = "progress" /\ c.i = i
IsFetch(c, i) == c.call = "fetch" /\ c.i = i
IsFetchReturn(c, i) == c.call = "fetch_return" /\ c.i = i
IsSend(c, i) == c.call = "send_audio" /\ c.i = i
IsSummary(c) == c.call = "edit" /\ c.msg = "summary"

\* items of the run whose fetch returned None
FailedFetches == {log[k].i : k \in {m \in 1..Len(log) : log[m].call = "fetch_return" /\ ~log[m].ok}}

\* items of the run whose progress update or delivery raised at the transport
TransportFailures ==
    {log[k].i : k \in {m \in 1..Len(log) :
        /\ ~log[m].ok
        /\ \/ log[m].call = "send_audio"
           \/ log[m].call = "edit" /\ log[m].msg = "progress"}}

\* C1: in a collection download a fetch that fails for item i is followed at
\* once by the progress update of item i+1 (by the final summary when i is the
\* last item), and when the run has returned every later item has had its
\* progress update, and its fetch whenever that update went through, and the
\* final summary has been emitted
C1_FetchFailureDoesNotAbort ==
    InBatch =>
        \A k \in 1..Len(log) :
            (log[k].call = "fetch_return" /\ ~log[k].ok) =>
                /\ IF k < Len(log)
                   THEN IF log[k].i < log[k].n
                        THEN IsProgress(log[k + 1], log[k].i + 1)
                        ELSE IsSummary(log[k + 1])
                   ELSE pc = (IF log[k].i < log[k].n THEN "progress_edit" ELSE "summary_edit")
                /\ pc = "done" =>
                     /\ \E m \in (k + 1)..Len(log) : IsSummary(log[m])
                     /\ \A j \in (log[k].i + 1)..log[k].n :
                          \E m \in (k + 1)..Len(log) :
                             /\ IsProgress(log[m], j)
                             /\ log[m].ok => m < Len(log) /\ IsFetch(log[m + 1], j)

C1_Witness ==
    /\ pc = "done"
    /\ InBatch
    /\ Len(run.info.tracks) = 3
    /\ \E k \in 1..Len(log) : IsFetchReturn(log[k], 2) /\ ~log[k].ok
    /\ \E k \in 1..Len(log) : IsFetchReturn(log[k], 3) /\ log[k].ok
    /\ IsSummary(log[Len(log)])

\* C2: the final summary of a collection of N items reports total N and
\* succeeded = N - |F| - |D|, F the items whose fetch failed and D the items
\* whose progress update or delivery raised; so N - |F| whenever every fetch
\* outside F succeeds and is delivered
C2_SucceededIsNMinusFailed ==
    InBatch =>
        \A k \in 1..Len(log) :
            IsSummary(log[k]) =>
                /\ log[k].n = Len(run.info.tracks)
                /\ log[k].n = Len(Catalog(run.info.kind, run.info.id))
                /\ log[k].i + Cardinality(FailedFetches) + Cardinality(TransportFailures) = log[k].n

C2_Witness ==
    /\ pc = "done"
    /\ InBatch
    /\ IsSummary(log[Len(log)])
    /\ log[Len(log)].n = 3
    /\ FailedFetches = {2}
    /\ TransportFailures = {}
    /\ log[Len(log)].i = 2

\* the calls of the run that belong to an item of the batch
IsItemCall(c) == c.call \in {"fetch", "fetch_return", "send_audio"} \/ (c.call = "edit" /\ c.msg = "progress")

\* C3: within one batch run the item calls are ordered by source index, each
\* item's progress update, fetch and delivery happen once and in this order,
\* a fetched file is delivered before anything else is done, and at most one
\* fetch is in flight
C3_StrictlySequential ==
    /\ Cardinality(run.inflight) <= 1
    /\ run.inflight /= {} => pc = "fetch_wait" /\ run.inflight = {run.i}
    /\ InBatch =>
        \A k \in 1..Len(log) :
            /\ \A m \in (k + 1)..Len(log) :
                 IsItemCall(log[k]) /\ IsItemCall(log[m]) =>
                     /\ log[k].i <= log[m].i
                     /\ log[k].i = log[m].i => log[k].call /= log[m].call
            /\ IsItemCall(log[k]) => log[k].i \in 1..Len(run.info.tracks)
            /\ log[k].call = "fetch" =>
                 IsProgress(log[k - 1], log[k].i) /\ log[k - 1].ok
            /\ log[k].call = "fetch_return" => IsFetch(log[k - 1], log[k].i)
            /\ log[k].call = "send_audio" =>
                 IsFetchReturn(log[k - 1], log[k].i) /\ log[k - 1].ok
            /\ (log[k].call = "fetch_return" /\ log[k].ok) =>
                 IF k < Len(log) THEN IsSend(log[k + 1], log[k].i)
                 ELSE pc = "send_audio" /\ run.i = log[k].i

C3_Witness ==
    /\ pc = "done"
    /\ InBatch
    /\ \E k \in 1..Len(log) : IsSend(log[k], 1) /\ log[k].ok
    /\ \E k \in 1..Len(log) : IsSend(log[k], 2) /\ log[k].ok
    /\ \E k \in 1..Len(log) : IsSend(log[k], 3) /\ log[k].ok

\* C4: when a download run has returned, no scratch file written for it remains
C4_ScratchReleased ==
    pc = "done" =>
        \A k \in 1..Len(log) :
            (log[k].call = "fetch_return" /\ log[k].msg = "written") =>
                download_dir[ScratchPath(run.info.tracks[log[k].i])] = Absent

\* C5: a quality selection of any kind handled while its slot is empty ends
\* with the "session expired" message
C5_EmptySlotExpires ==
    (/\ pc = "done"
     /\ Route(run.data) \in {"handle_quality_selection", "handle_download_request"}
     /\ \E k \in 1..Len(log) : log[k].call = "answer" /\ log[k].ok
     /\ ~Truthy(run.info))
        => \E k \in 1..Len(log) : log[k].msg = "session_expired"

\* C6: a run started by a button issued for reference X only ever fetches
\* items of the metadata resolved from X
C6_MismatchRejected ==
    Route(run.data) = "handle_download_request" =>
        \A k \in 1..Len(log) :
            log[k].call = "fetch" => run.info.kind = run.kind /\ run.info.id = run.data[3]

\* C7: a fetch is called only in a run started by a quality selection that
\* found the slot of its kind populated, and it fetches from that slot's
\* metadata; a run started by a message never fetches
SelectedSlot(data) ==
    IF Route(data) = "handle_quality_selection" THEN "current_track" ELSE DownloadSlot(data)

C7_NoFetchWithoutSelection ==
    (pc \in {"fetch", "fetch_wait"} \/ \E k \in 1..Len(log) : log[k].call = "fetch") =>
        /\ Route(run.data) \in {"handle_quality_selection", "handle_download_request"}
        /\ SelectedSlot(run.data) \in SlotKeys
        /\ run.info /= None
        /\ user_data[run.sess][SelectedSlot(run.data)] = run.info

C7_Witness ==
    /\ pc = "fetch_wait"
    /\ run.inflight = {1}

\* C8: when a cancel has been handled the session's slots are empty
C8_CancelClearsSlot ==
    (/\ pc = "done"
     /\ Route(run.data) = "cancel_download"
     /\ \E k \in 1..Len(log) : log[k].msg = "cancelled")
        => \A key \in SlotKeys : user_data[run.sess][key] = None

\* C9: at most one of a session's three slots is populated
C9_AtMostOneSlot ==
    \A s \in Sessions : Cardinality({key \in SlotKeys : user_data[s][key] /= None}) <= 1

\* C10: when a resolution handler returns after its quality prompt went out,
\* the slot of the reference's kind holds the metadata the resolver returned
C10_SlotHoldsResolved ==
    (/\ pc = "done"
     /\ \E k \in 1..Len(log) : log[k].msg = "quality_prompt" /\ log[k].ok)
        => /\ \E k \in 1..Len(log) : log[k].call = "resolve" /\ log[k].msg = "found"
           /\ run.info = Metadata(run.kind, run.id)
           /\ user_data[run.sess][SlotKey(run.kind)] = Metadata(run.kind, run.id)

\* a second resolution of the same kind has replaced an earlier one
C10_Witness ==
    /\ pc = "done"
    /\ \E k \in 1..Len(log) : log[k].msg = "quality_prompt" /\ log[k].ok
    /\ \E d \in Ids \ {run.id} : Prompt(run.sess, run.kind, d) \in issued
    /\ updates = 2
    /\ user_data[run.sess][SlotKey(run.kind)] = Metadata(run.kind, run.id)

\* the run has entered start_track_download or a collection download
InDownload == \E k \in 1..Len(log) : log[k].msg \in {"downloading", "starting"}

\* C11: once a download run has started from a slot that slot is cleared, so
\* that a repeated quality selection finds it empty
C11_SlotConsumedOnce ==
    InDownload => user_data[run.sess][SelectedSlot(run.data)] = None

\* C12: when the resolver answered not-found or raised, the handler returns
\* without a quality prompt and with the slot of that kind empty
C12_NotFoundLeavesSlotEmpty ==
    (/\ pc = "done"
     /\ \E k \in 1..Len(log) : log[k].call = "resolve" /\ log[k].msg \in {"none", "raise"})
        => /\ \A k \in 1..Len(log) : log[k].msg /= "quality_prompt"
           /\ user_data[run.sess][SlotKey(run.kind)] = None

\* C13: a collection resolved with zero items gets no quality prompt, is not
\* stored in a slot, and no batch reports a total of 0
C13_EmptyCollectionRejected ==
    /\ \A k \in 1..Len(log) :
         /\ log[k].msg = "quality_prompt" => run.info.tracks /= << >>
         /\ IsSummary(log[k]) => log[k].n > 0
    /\ \A s \in Sessions, key \in SlotKeys :
         user_data[s][key] /= None => user_data[s][key].tracks /= << >>

\* C15: two fetches of a run never get the same scratch path
C15_DistinctScratchPaths ==
    \A k \in 1..Len(log) : \A m \in (k + 1)..Len(log) :
        (log[k].call = "fetch" /\ log[m].call = "fetch") =>
            ScratchPath(run.info.tracks[log[k].i]) /= ScratchPath(run.info.tracks[log[m].i])

\* C16: a run calls the fetch at most once per item, the fetch of an item
\* returns once, and a single-track run that got past its first edit calls
\* it exactly once
C16_OneFetchPerItem ==
    /\ \A k \in 1..Len(log) : \A m \in (k + 1)..Len(log) :
         log[k].i = log[m].i =>
             /\ ~(log[k].call = "fetch" /\ log[m].call = "fetch")
             /\ ~(log[k].call = "fetch_return" /\ log[m].call = "fetch_return")
    /\ (/\ pc = "done"
        /\ Route(run.data) = "handle_quality_selection"
        /\ \E k \in 1..Len(log) : log[k].msg = "downloading" /\ log[k].ok)
           => Cardinality({k \in 1..Len(log) : log[k].call = "fetch"}) = 1

\* a single-track run whose only fetch failed has returned
C16_Witness ==
    /\ pc = "done"
    /\ Route(run.data) = "handle_quality_selection"
    /\ \E k \in 1..Len(log) : IsFetchReturn(log[k], 1) /\ ~log[k].ok
    /\ \E k \in 1..Len(log) : log[k].msg = "download_failed"

\* C17: a batch in which a progress update or a delivery raised does not
\* report the completion summary
C17_TransportErrorFailsRun ==
    (InBatch /\ TransportFailures /= {}) => \A k \in 1..Len(log) : ~IsSummary(log[k])

\* C18: after the edit of the quality prompt has raised, a resolution handler
\* makes at most one more transport call
C18_OneFallback ==
    \A k \in 1..Len(log) :
        (log[k].call = "edit" /\ log[k].msg = "quality_prompt" /\ ~log[k].ok) =>
            Len(log) - k <= 1

\* C19: a run started by a message without the marker, or whose kind and id
\* cannot be extracted, changes no slot, calls neither the resolver nor the
\* fetch, and has tried to send the retry/demo prompt when it returns (unless
\* the processing message itself could not be sent)
C19_MissChangesNothing ==
    [][(/\ run'.sess /= ""
        /\ run'.data = << >>
        /\ (run'.id = "" \/ run'.kind \notin {"track", "playlist", "album"}))
          => /\ user_data' = user_data
             /\ \A k \in 1..Len(log') : log'[k].call \notin {"resolve", "fetch"}
             /\ pc' = "done" =>
                  \/ \E k \in 1..Len(log') : log'[k].msg \in {"not_a_link", "unsupported"}
                  \/ (log'[1].msg = "analyzing" /\ ~log'[1].ok)]_vars

\* a link of an unknown kind was answered while a slot of the session is populated
C19_Witness ==
    /\ pc = "done"
    /\ run.data = << >>
    /\ run.kind = "artist"
    /\ \E k \in 1..Len(log) : log[k].msg = "unsupported" /\ log[k].ok
    /\ user_data[run.sess]["current_playlist"] /= None

\* C14: once a cancel has been received during a collection download, the
\* run fetches and delivers nothing beyond the item it was working on
C14_CancelStopsBatch ==
    (pending /= << >> /\ InBatch) =>
        \A k \in (Head(pending).at + 1)..Len(log) :
            log[k].call \in {"fetch", "send_audio"} => log[k].i <= Head(pending).item

\* C20: a slot of a session changes only when that session's own link handler
\* stores what it resolved (or the restart empties every slot), and a download
\* works on the metadata held in the slot of the session that selected it
C20_SessionsIsolated ==
    [][/\ \A s \in Sessions : user_data'[s] /= user_data[s] =>
            \/ /\ pc = "idle"
               /\ user_data' = [t \in Sessions |-> [k \in SlotKeys |-> None]]
            \/ /\ s = run.sess
               /\ run.data = << >>
               /\ user_data'[s] = [user_data[s] EXCEPT
                                      ![SlotKey(run.kind)] = Metadata(run.kind, run.id)]
       /\ pc' \in {"fetch", "fetch_wait"} =>
            run'.info = user_data'[run'.sess][SelectedSlot(run'.data)]]_vars

\* the second session downloads its own selection while the first one holds
\* other metadata in the slot of the same kind
C20_Witness ==
    /\ pc = "fetch_wait"
    /\ run.sess = "u2"
    /\ user_data["u1"][SelectedSlot(run.data)] \notin {None, run.info}

\* C21: when a collection download returns after its fetches and summary, no
\* update of another session that arrived while it was suspended is still
\* waiting to be handled
C21_OtherSessionNotBlocked ==
    (/\ pc = "done"
     /\ InBatch
     /\ \E k \in 1..Len(log) : log[k].call = "fetch"
     /\ \E k \in 1..Len(log) : IsSummary(log[k]))
        => \A k \in 1..Len(pending) : pending[k].sess = run.sess

\* C22: no call of cleanup_file raises, the second one on a path included,
\* and a call leaves every other path as it was
C22_ReleaseIdempotent ==
    [][(Len(log') = Len(log) + 1 /\ log'[Len(log')].call = "cleanup_file") =>
          /\ log'[Len(log')].ok
          /\ IF download_dir = NoDirectory THEN download_dir' = NoDirectory
             ELSE \A q \in Paths \ {log'[Len(log')].path} :
                     download_dir'[q] = download_dir[q]]_vars

\* cleanup_file has been called twice on a path that held a file, next to
\* another file
C22_Witness ==
    /\ Len(log) = 2
    /\ log[1].call = "cleanup_file" /\ log[2].call = "cleanup_file"
    /\ log[1].path = log[2].path
    /\ log[1].ok /\ log[2].ok
    /\ download_dir /= NoDirectory
    /\ download_dir[log[1].path] = Absent
    /\ \E q \in Paths : download_dir[q] /= Absent

\* C27: no call of cleanup_file or cleanup_all raises, and cleanup_all calls
\* cleanup_file on every file it listed, whichever deletions fail
C27_CleanupNeverEscalates ==
    \A k \in 1..Len(log) :
        log[k].call \in {"cleanup_file", "cleanup_all"} =>
            /\ log[k].ok
            /\ log[k].attempted = log[k].listed

\* cleanup_all went through three files of which one could not be deleted
C27_Witness ==
    /\ Len(log) >= 1
    /\ log[1].call = "cleanup_all"
    /\ Cardinality(log[1].attempted) = 3
    /\ download_dir /= NoDirectory
    /\ Cardinality(listdir(download_dir)) = 1

\* positions of the log at which an artifact was delivered to the transport
Delivered == {k \in 1..Len(log) : log[k].call = "send_audio" /\ log[k].ok}

\* items of the batch whose iteration has begun
Attempted == {log[k].i : k \in {m \in 1..Len(log) : IsItemCall(log[m])}}

\* C23: at every point of a collection download succeeded is the number of
\* artifacts delivered so far, it is at most the number of items attempted so
\* far, which is at most the total, and the summary reports that number
C23_SucceededIsDelivered ==
    InBatch =>
        /\ run.success_count = Cardinality(Delivered)
        /\ run.success_count <= Cardinality(Attempted)
        /\ Cardinality(Attempted) <= total_tracks
        /\ \A k \in 1..Len(log) :
             IsSummary(log[k]) =>
                 /\ log[k].i = Cardinality({m \in Delivered : m < k})
                 /\ log[k].i <= log[k].n
                 /\ log[k].n = total_tracks

\* a batch of three whose second file could not be sent reported 2 of 3
C23_Witness ==
    /\ pc = "done"
    /\ InBatch
    /\ IsSummary(log[Len(log)])
    /\ log[Len(log)].i = 2 /\ log[Len(log)].n = 3
    /\ Cardinality(Delivered) = 2
    /\ \E k \in 1..Len(log) : IsSend(log[k], 2) /\ ~log[k].ok

\* positions of the log at which the progress update of item j was emitted
ProgressOf(j) == {k \in 1..Len(log) : IsProgress(log[k], j)}

\* C24: a collection download of N items emits the progress updates in
\* increasing order of index and at most one per index; its summary is its
\* last call, comes after exactly one progress update for every index 1..N,
\* and is emitted whenever the run got past its first edit and has returned
C24_ProgressThenSummary ==
    InBatch =>
        /\ \A k \in 1..Len(log) : \A m \in (k + 1)..Len(log) :
             (log[k].msg = "progress" /\ log[m].msg = "progress") => log[k].i < log[m].i
        /\ \A k \in 1..Len(log) : log[k].msg = "progress" => log[k].i \in 1..total_tracks
        /\ \A k \in 1..Len(log) :
             IsSummary(log[k]) =>
                 /\ k = Len(log)
                 /\ \A j \in 1..total_tracks :
                      Cardinality(ProgressOf(j)) = 1 /\ \A m \in ProgressOf(j) : m < k
                 /\ total_tracks > 0 =>
                      IsItemCall(log[k - 1]) /\ log[k - 1].i = total_tracks
        /\ (pc = "done" /\ \E k \in 1..Len(log) : log[k].msg = "starting" /\ log[k].ok)
              => IsSummary(log[Len(log)])

\* a batch of three has emitted its three progress updates and its summary
C24_Witness ==
    /\ pc = "done"
    /\ InBatch
    /\ total_tracks = 3
    /\ IsSummary(log[Len(log)])
    /\ \A j \in 1..3 : \E k \in ProgressOf(j) : log[k].ok

\* C25: download_track returns None whenever the tool exited non-zero or an
\* exception was raised around it, and the path it returns is the scratch path
\* of the item, at which a file exists when it returns
C25_FetchNeverRaises ==
    [][(Len(log') = Len(log) + 1 /\ log'[Len(log')].call = "fetch_return") =>
          LET e == log'[Len(log')] IN
          /\ e.msg \in {"nonzero_exit", "raised"} => ~e.ok
          /\ ~e.ok <=> run'.file_path = NoPath
          /\ e.ok => /\ run'.file_path = ScratchPath(run.info.tracks[e.i])
                     /\ download_dir'[run'.file_path] /= Absent
          /\ pc' \in {"send_audio", "failed_edit", "progress_edit", "summary_edit"}]_vars

\* the tool exited non-zero for an item whose file an earlier download left
\* in the directory
C25_Witness ==
    \E k \in 1..Len(log) :
        /\ log[k].call = "fetch_return"
        /\ log[k].msg = "nonzero_exit"
        /\ ~log[k].ok
        /\ download_dir[ScratchPath(run.info.tracks[log[k].i])] /= Absent

\* C28: the file sent for a download at bitrate b was written at bitrate b
C28_DeliveredAtRequestedBitrate ==
    pc = "send_audio" => download_dir[run.file_path] = _map_quality_to_ytdlp(run.quality)

\* C26: the progress line of item i of N shows floor(i*100/N) percent, which
\* does not decrease with i, lies in 1..100 when N <= 100 and is 100 exactly
\* for i = N, and a bar of 10 segments of which the first floor(i*10/N) are
\* filled and the others empty
C26_PercentAndBar ==
    (pc = "progress_text" /\ log /= << >>) =>
        LET t == log[1]
            filled == {k \in 1..Len(t.bar) : t.bar[k] = "filled"}
            empty == {k \in 1..Len(t.bar) : t.bar[k] = "empty"} IN
        /\ t.i = run.i /\ t.n = total_tracks /\ t.i \in 1..t.n
        /\ t.percent * t.n <= t.i * 100
        /\ t.i * 100 < (t.percent + 1) * t.n
        /\ \A j \in 1..t.i : Percent(j, t.n) <= t.percent
        /\ t.n <= 100 => t.percent \in 1..100
        /\ t.percent = 100 <=> t.i = t.n
        /\ Len(t.bar) = 10
        /\ Cardinality(filled) * t.n <= t.i * 10
        /\ t.i * 10 < (Cardinality(filled) + 1) * t.n
        /\ Cardinality(empty) = 10 - Cardinality(filled)
        /\ \A k \in filled : \A m \in empty : k < m

\* the first item of a collection of 100: one percent, no segment filled
C26_Witness ==
    /\ pc = "progress_text"
    /\ log /= << >>
    /\ log[1].i = 1 /\ log[1].n = 100
    /\ log[1].percent = 1
    /\ log[1].bar[1] = "empty"

\* C29: a single-track run shows the "Download failed" notice only when it
\* has delivered no artifact
C29_NoFailureAfterDelivery ==
    Route(run.data) = "handle_quality_selection" =>
        \A k \in 1..Len(log) :
            log[k].msg = "download_failed" =>
                \A m \in 1..(k - 1) : ~(log[m].call = "send_audio" /\ log[m].ok)

\* C30: once the quality prompt of a resolved reference has reached the
\* requester, the slot of its kind holds the metadata of that reference
C30_StoredBeforePrompt ==
    \A k \in 1..Len(log) :
        (log[k].msg = "quality_prompt" /\ log[k].ok) =>
            user_data[run.sess][SlotKey(run.kind)] = Metadata(run.kind, run.id)

\* C31: a run started by a navigation callback changes no slot and calls
\* neither the resolver nor the fetch; without data it makes no call at all,
\* and download_another, once answered, sends its own reply first
C31_NavigationChangesNothing ==
    [][(run'.sess /= "" /\ run'.data \in NavigationData) =>
          /\ user_data' = user_data
          /\ \A k \in 1..Len(log') : log'[k].call \notin {"resolve", "fetch"}
          /\ \A k \in 1..Len(log') : log'[k].msg \notin {"starting", "downloading", "progress", "summary"}
          /\ run'.data = NoData => log' = << >>
          /\ (run'.data = DownloadAnother /\ pc' = "done" /\ log'[1].ok) =>
                Len(log') >= 2 /\ log'[2].msg = "ready_for_more"]_vars

\* download_another was handled while the playlist slot of the session is
\* populated
C31_Witness ==
    /\ pc = "done"
    /\ run.data = DownloadAnother
    /\ Len(log) = 3
    /\ log[2].msg = "ready_for_more" /\ log[2].ok
    /\ log[3].msg = "show_main_menu" /\ log[3].ok
    /\ user_data[run.sess]["current_playlist"] /= None

\* C32: the quality of a download is the quality part of the callback data
\* as it came, no quality part keeps an answered selection with a populated
\* slot from starting its download, and the file the tool writes has audio
\* quality 128K, 192K or 320K for the parts 128, 192, 320 and 192K for any
\* other part
C32_QualityMapped ==
    [][/\ (pc = "answer" /\ pc' /= "done") =>
            /\ run'.quality = run.data[Len(run.data)]
            /\ pc' \in {"downloading_edit", "starting_edit"}
       /\ (Len(log') = Len(log) + 1 /\ log'[Len(log')].call = "fetch") =>
            log'[Len(log')].msg = run.data[Len(run.data)]
       /\ (/\ Len(log') = Len(log) + 1
           /\ log'[Len(log')].call = "fetch_return"
           /\ log'[Len(log')].msg = "written") =>
            LET q == run.data[Len(run.data)]
                written == download_dir'[ScratchPath(run.info.tracks[run.i])] IN
            /\ written \in {"128K", "192K", "320K"}
            /\ q = "128" => written = "128K"
            /\ q = "192" => written = "192K"
            /\ q = "320" => written = "320K"
            /\ q \notin {"128", "192", "320"} => written = "192K"]_vars

\* a download selected with a quality part outside the map has its file
\* written at 192K
C32_Witness ==
    /\ pc = "send_audio"
    /\ run.quality = "64"
    /\ log[Len(log)].call = "fetch_return" /\ log[Len(log)].msg = "written"
    /\ download_dir[run.file_path] = "192K"

Next ==
    \/ \E s \in Sessions, text \in Texts : handle_message(s, text)
    \/ handle_message_demo_reply
    \/ handle_spotify_url_reply
    \/ handle_spotify_url_unsupported
    \/ handle_spotify_url_except
    \/ resolve
    \/ notfound_edit
    \/ prompt_edit
    \/ handle_playlist_prompt_reply
    \/ store
    \/ kind_error_edit
    \/ \E s \in Sessions, k \in Kinds, d \in Ids :
          \E data \in Buttons(k, d) : handle_button_callback(s, k, d, data)
    \/ answer
    \/ handle_quality_selection_expired
    \/ cancel_download
    \/ start_track_download
    \/ start_collection_download
    \/ progress_edit
    \/ fetch
    \/ fetch_return
    \/ send_audio
    \/ start_track_download_complete
    \/ start_track_download_except
    \/ summary_edit
    \/ run_telegram_bot
    \/ Return

Spec == Init /\ [][Next]_vars

\* the same program with two requesters
InitSessions ==
    /\ user_data = [s \in Sessions |-> [k \in SlotKeys |-> None]]
    /\ issued = {}
    /\ download_dir = [p \in Paths |-> Absent]
    /\ pc = "idle"
    /\ run = NoRun
    /\ log = << >>
    /\ updates = 0
    /\ chats = Sessions
    /\ pending = << >>

SpecSessions == InitSessions /\ [][Next]_vars

\* the same program, with the cancel button pressed during a download
NextCancel ==
    \/ Next
    \/ \E s \in Sessions, k \in Kinds, d \in Ids : receive_cancel(s, k, d)

SpecCancel == Init /\ [][NextCancel]_vars

\* the same program, with the navigation buttons pressed as well
NextNav ==
    \/ Next
    \/ \E s \in Sessions, data \in NavigationData : handle_navigation_callback(s, data)
    \/ download_another_reply
    \/ download_another_menu
    \/ download_another_except
    \/ show_screen
    \/ unknown_action_reply

SpecNav == Init /\ [][NextNav]_vars

\* quality selections with any quality part, from the state in which the
\* requester has sent the links of track x and of playlist y and both
\* prompts are out
InitQuality ==
    /\ user_data = [s \in Sessions |->
                      IF s = "u1"
                      THEN [k \in SlotKeys |->
                              CASE k = "current_track" -> Metadata("track", "x")
                                [] k = "current_playlist" -> Metadata("playlist", "y")
                                [] OTHER -> None]
                      ELSE [k \in SlotKeys |-> None]]
    /\ issued = {Prompt("u1", "track", "x"), Prompt("u1", "playlist", "y")}
    /\ download_dir = [p \in Paths |-> Absent]
    /\ pc = "idle"
    /\ run = NoRun
    /\ log = << >>
    /\ updates = 2
    /\ chats = {"u1"}
    /\ pending = << >>

NextQuality ==
    \/ \E s \in Sessions, k \in Kinds, d \in Ids, q \in QualityInputs :
          handle_quality_callback(s, k, d, q)
    \/ answer
    \/ start_track_download
    \/ start_collection_download
    \/ progress_edit
    \/ fetch
    \/ fetch_return
    \/ send_audio
    \/ start_track_download_complete
    \/ start_track_download_except
    \/ summary_edit
    \/ Return

SpecQuality == InitQuality /\ [][NextQuality]_vars

\* the progress line of every item of a collection of up to MaxTracks items
InitProgress ==
    /\ user_data = [s \in Sessions |-> [k \in SlotKeys |-> None]]
    /\ issued = {}
    /\ download_dir = [p \in Paths |-> Absent]
    /\ pc = "progress_text"
    /\ \E total \in 1..MaxTracks :
          run = [NoRun EXCEPT !.sess = "u1", !.kind = "playlist", !.id = "x",
                              !.data = DownloadData("playlist", "x", "128"),
                              !.quality = "128",
                              !.info = [kind |-> "playlist", id |-> "x",
                                        tracks |-> [k \in 1..total |-> "a"]]]
    /\ log = << >>
    /\ updates = 0
    /\ chats = {"u1"}
    /\ pending = << >>

NextProgress == render_progress

SpecProgress == InitProgress /\ [][NextProgress]_vars

\* the cleanup functions applied to a scratch directory that downloads have
\* filled; no handler calls them
InitCleanup ==
    /\ user_data = [s \in Sessions |-> [k \in SlotKeys |-> None]]
    /\ issued = {}
    /\ download_dir \in [Paths -> {Absent} \cup {_map_quality_to_ytdlp(q) : q \in Qualities}]
    /\ pc = "idle"
    /\ run = NoRun
    /\ log = << >>
    /\ updates = 0
    /\ chats = {"u1"}
    /\ pending = << >>

NextCleanup ==
    \/ \E path \in Paths, fails \in SUBSET Paths : cleanup_file_call(path, fails)
    \/ \E fails \in SUBSET Paths : cleanup_all_call(fails)

SpecCleanup == InitCleanup /\ [][NextCleanup]_vars

\* two requesters, the second one writing while a run of the first is suspended
NextConcurrent ==
    \/ Next
    \/ \E s \in Sessions, text \in Texts : receive_message(s, text)

SpecConcurrent == InitSessions /\ [][NextConcurrent]_vars
====
